---- MODULE Spec2Model ----
(***************************************************************************)
(* Model of src/logger.js: the Logger class over a shared SQLite store     *)
(* (tables logs and logs_attr), its session methods and its level-gated    *)
(* console output.                                                         *)
(***************************************************************************)
EXTENDS Integers, Sequences, FiniteSets, TLC

\* ---------------------------------------------------------------- bounds
MaxRows == 3          \* rows the logs table may hold in the model
MaxClock == 2         \* last clock tick of the model
TicksPerSecond == 2   \* clock ticks per second of the timestamp format

\* ------------------------------------------------------------- constants
DEBUG == 7
INFO == 6
WARN == 4
ERROR == 3

NULL == -1            \* JS null / SQL NULL in a key or timestamp column
LOGSTARTMESSAGE == "LOGSTARTMESSAGE"

\* return values of a method
Undefined == <<>>
Null == <<"null">>
Value(v) == <<"value", v>>

\* ---------------------------------------------------------------- inputs
Loggers == {"L1", "L2"}
Packages == {"p"}
Names == {"n"}
Filenames == {<<"a">>, <<"%">>}
MoreFilenames == {<<"a">>, <<"A">>, <<"%">>}
StoreLevels == {INFO}
Levels == 2..8
Messages == {"x", "y"}
Titles == {<<"t">>}
NoParams == [package |-> "", name |-> "", filename |-> <<>>, logkey |-> NULL]

VARIABLES
  tables,     \* names of the tables that exist in the store file
  logs,       \* table logs: LOGKEY -> row
  logs_attr,  \* table logs_attr: set of rows [keyref, attrib, value]
  clock,      \* wall clock, in ticks
  live,       \* the Logger objects that exist
  dbh,        \* this.dbh per Logger: "null", "open" or "closed"
  logLevel,   \* this.logLevel per Logger
  params,     \* this.params per Logger
  call,       \* the most recent method call and its outcome
  emitted,    \* what the most recent call wrote to stdout / stderr
  opens,      \* per Logger: how often new sqlite3db(...) has run, line 36
  closes      \* per Logger: how often this.dbh.close() has run, line 160

vars == <<tables, logs, logs_attr, clock, live, dbh, logLevel, params, call, emitted,
          opens, closes>>

\* ------------------------------------------------------------ helpers
Max(S) == CHOOSE x \in S : \A y \in S : y <= x

\* format(level, message), line 4
format(level, message) == <<level, ": ", message, "\n">>
stdOut(msg) == <<"stdout", msg>>
stdErr(msg) == <<"stderr", msg>>

\* getDateTime, lines 138-141: the clock formatted to whole seconds
getDateTime(c) == c \div TicksPerSecond

\* The clock readings a second getDateTime() of the same method can see.
LaterClock == {c \in {clock, clock + 1} : c <= MaxClock}

\* SQLite's LIKE: ASCII case-insensitive, % any run, _ any one character
Lower(c) == IF c = "A" THEN "a" ELSE IF c = "B" THEN "b" ELSE c
RECURSIVE Like(_, _)
Like(s, p) ==
  IF p = <<>> THEN s = <<>>
  ELSE IF Head(p) = "%"
    THEN Like(s, Tail(p)) \/ (s # <<>> /\ Like(Tail(s), p))
    ELSE /\ s # <<>>
         /\ (Head(p) = "_" \/ Lower(Head(p)) = Lower(Head(s)))
         /\ Like(Tail(s), Tail(p))

\* the guard left out
AbsentNever(l) == FALSE

\* !this.dbh, the guard of lines 68, 95, 106, 117, 127, 144 and 159
Absent(l) == dbh[l] = "null"

\* the guard left out
InitializedNever(l) == FALSE

\* this.dbh, the guard of line 34
Initialized(l) == dbh[l] # "null"

\* A prepared statement needs an open connection and its table.
Usable(l, t) == dbh[l] = "open" /\ t \in tables

\* the rowid of the last row, used again
NextRowidReused == IF DOMAIN logs = {} THEN 1 ELSE Max(DOMAIN logs)

\* INTEGER PRIMARY KEY: the rowid the next INSERT gets
NextRowid == IF DOMAIN logs = {} THEN 1 ELSE Max(DOMAIN logs) + 1

\* getLogSession without the test of LOGEND
LogSessionOfAnyRow(k) ==
  IF k \notin DOMAIN logs THEN NULL ELSE k

\* getLogSession, lines 116-124, for a Logger with the key k
LogSessionOf(k) ==
  IF k \notin DOMAIN logs \/ logs[k].logend # NULL THEN NULL ELSE k

getLogSession(l) == LogSessionOf(params[l].logkey)

\* getLogKey, lines 126-136: the rows the SELECT may return for a filename;
\* ORDER BY LOGSTART DESC LIMIT 1 leaves the choice among equal LOGSTART open
LogKeysOf(file) ==
  LET match == {k \in DOMAIN logs : Like(logs[k].filename, file)}
      top == {k \in match : \A j \in match : logs[j].logstart <= logs[k].logstart}
  IN IF match = {} THEN {NULL} ELSE top

getLogKey(l) == LogKeysOf(params[l].filename)

\* the rows of logs that are open, per filename
OpenRows(file) == {k \in DOMAIN logs : logs[k].filename = file /\ logs[k].logend = NULL}

\* Upsert with the row left out
UpsertDropped(attr, k, title) == attr

\* Upsert as INSERT OR IGNORE: an existing row keeps its value
UpsertIgnored(attr, k, title) ==
  IF \E r \in attr : r.keyref = k /\ r.attrib = LOGSTARTMESSAGE
  THEN attr
  ELSE attr \cup {[keyref |-> k, attrib |-> LOGSTARTMESSAGE, value |-> title]}

\* Upsert under the key before the one just assigned
UpsertStaleKey(attr, k, title) ==
  {r \in attr : ~(r.keyref = k - 1 /\ r.attrib = LOGSTARTMESSAGE)}
    \cup {[keyref |-> k - 1, attrib |-> LOGSTARTMESSAGE, value |-> title]}

\* INSERT OR REPLACE INTO logs_attr, line 145
Upsert(attr, k, title) ==
  {r \in attr : ~(r.keyref = k /\ r.attrib = LOGSTARTMESSAGE)}
    \cup {[keyref |-> k, attrib |-> LOGSTARTMESSAGE, value |-> title]}

\* The record of a call: the method, its Logger and argument, what it returned
\* or that it raised, and the rowid of the row it inserted.
NoCall == [op |-> "none", l |-> "L1", arg |-> <<>>, ret |-> <<>>, raised |-> FALSE,
           rowid |-> NULL]
Returned(op, l, ret) ==
  [op |-> op, l |-> l, arg |-> <<>>, ret |-> ret, raised |-> FALSE, rowid |-> NULL]
Raised(op, l) ==
  [op |-> op, l |-> l, arg |-> <<>>, ret |-> <<>>, raised |-> TRUE, rowid |-> NULL]

\* ------------------------------------------------------------------ Init
Init ==
  /\ tables = {}
  /\ logs = <<>>
  /\ logs_attr = {}
  /\ clock = 0
  /\ live = {}
  /\ dbh = [l \in Loggers |-> "null"]
  /\ logLevel = [l \in Loggers |-> 0]
  /\ params = [l \in Loggers |-> NoParams]
  /\ call = NoCall
  /\ emitted = <<>>
  /\ opens = [l \in Loggers |-> 0]
  /\ closes = [l \in Loggers |-> 0]

\* The clock advances between calls.
Tick ==
  /\ clock < MaxClock
  /\ clock' = clock + 1
  /\ UNCHANGED <<tables, logs, logs_attr, live, dbh, logLevel, params, call, emitted,
                  opens, closes>>

\* ------------------------------------------------------------ the methods
\* Logger objects are named in the order they are constructed.
NextLogger == IF "L1" \notin live THEN "L1" ELSE "L2"

\* constructor, lines 15-26: the fields of a new Logger, before initLog runs
NewLogger(l, pkg, name, file, lvl) ==
  /\ live' = live \cup {l}
  /\ logLevel' = [logLevel EXCEPT ![l] = lvl]

\* startLog, lines 70-91, on a usable handle, for a Logger with the params p
\* over a store with the tables tbls
StartLogBody(op, l, p, tbls) ==
  IF LogSessionOf(p.logkey) # NULL
  THEN /\ params' = [params EXCEPT ![l] = p]
       /\ call' = Returned(op, l, Undefined)
       /\ UNCHANGED <<logs, logs_attr, clock>>
  ELSE /\ Cardinality(DOMAIN logs) < MaxRows
       /\ \E c2 \in LaterClock :
            LET k == NextRowid
                row == [package |-> p.package, name |-> p.name,
                        filename |-> p.filename,
                        logstart |-> getDateTime(clock),
                        logend |-> NULL,
                        lastmodified |-> getDateTime(c2)]
            IN /\ logs' = (k :> row) @@ logs
               /\ params' = [params EXCEPT ![l] = [p EXCEPT !.logkey = k]]
               /\ clock' = c2
               /\ IF "logs_attr" \in tbls
                  THEN /\ logs_attr' = Upsert(logs_attr, k, <<p.name, " started">>)
                       /\ call' = [Returned(op, l, Undefined) EXCEPT !.rowid = k]
                  ELSE /\ logs_attr' = logs_attr
                       /\ call' = [Raised(op, l) EXCEPT !.rowid = k]

\* endLog with an UPDATE that has no WHERE clause
EndLogBodyAllRows(l) ==
  \E c2 \in LaterClock :
    /\ logs' = [k \in DOMAIN logs |->
                 [logs[k] EXCEPT !.logend = getDateTime(clock),
                                 !.lastmodified = getDateTime(c2)]]
    /\ clock' = c2

\* endLog, lines 107-113, on a usable handle
EndLogBody(l) ==
  \E c2 \in LaterClock :
    LET k == params[l].logkey
    IN /\ logs' = IF k \in DOMAIN logs
                  THEN [logs EXCEPT ![k].logend = getDateTime(clock),
                                    ![k].lastmodified = getDateTime(c2)]
                  ELSE logs
       /\ clock' = c2

\* constructor, lines 15-26 alone: a Logger whose initLog has not run
Alloc(l, pkg, name, file, lvl) ==
  /\ l \notin live
  /\ l = NextLogger
  /\ NewLogger(l, pkg, name, file, lvl)
  /\ params' = [params EXCEPT ![l] = [package |-> pkg, name |-> name,
                                       filename |-> file, logkey |-> NULL]]
  /\ call' = Returned("alloc", l, Undefined)
  /\ emitted' = <<>>
  /\ UNCHANGED <<tables, logs, logs_attr, clock, dbh, opens, closes>>

\* constructor, lines 14-31
Constructor(l, pkg, name, file, lvl) ==
  /\ l \notin live
  /\ l = NextLogger
  /\ NewLogger(l, pkg, name, file, lvl)
  /\ dbh' = [dbh EXCEPT ![l] = "open"]
  /\ opens' = [opens EXCEPT ![l] = @ + 1]
  /\ closes' = closes
  /\ tables' = tables \cup {"logs", "logs_attr"}
  /\ emitted' = IF lvl >= INFO THEN <<stdOut(format("INFO", "Start logger"))>> ELSE <<>>
  /\ \E k \in LogKeysOf(file) :
       StartLogBody("constructor", l,
                    [package |-> pkg, name |-> name, filename |-> file, logkey |-> k],
                    tables')

\* initLog, lines 33-65
InitLog(l, clear) ==
  /\ l \in live
  /\ emitted' = <<>>
  /\ UNCHANGED <<logs_attr, clock, live, logLevel, params, closes>>
  /\ IF Initialized(l)
     THEN /\ call' = [Returned("initLog", l, Undefined) EXCEPT !.arg = <<clear>>]
          /\ UNCHANGED <<tables, logs, dbh, opens>>
     ELSE /\ dbh' = [dbh EXCEPT ![l] = "open"]
          /\ opens' = [opens EXCEPT ![l] = @ + 1]
          /\ IF clear /\ "logs" \notin tables
             THEN /\ call' = [Raised("initLog", l) EXCEPT !.arg = <<clear>>]
                  /\ UNCHANGED <<tables, logs>>
             ELSE /\ call' = [Returned("initLog", l, Undefined) EXCEPT !.arg = <<clear>>]
                  /\ tables' = tables \cup {"logs", "logs_attr"}
                  /\ logs' = IF clear THEN <<>> ELSE logs

\* startLog, lines 67-92
StartLog(l) ==
  /\ l \in live
  /\ emitted' = <<>>
  /\ UNCHANGED <<tables, live, dbh, logLevel, opens, closes>>
  /\ IF Absent(l)
     THEN /\ call' = Returned("startLog", l, Undefined)
          /\ UNCHANGED <<logs, logs_attr, clock, params>>
     ELSE IF ~Usable(l, "logs")
     THEN /\ call' = Raised("startLog", l)
          /\ UNCHANGED <<logs, logs_attr, clock, params>>
     ELSE StartLogBody("startLog", l, params[l], tables)

\* endLog, lines 105-114
EndLog(l) ==
  /\ l \in live
  /\ emitted' = <<>>
  /\ UNCHANGED <<tables, logs_attr, live, dbh, logLevel, params, opens, closes>>
  /\ IF Absent(l)
     THEN /\ call' = Returned("endLog", l, Undefined)
          /\ UNCHANGED <<logs, clock>>
     ELSE IF ~Usable(l, "logs")
     THEN /\ call' = Raised("endLog", l)
          /\ UNCHANGED <<logs, clock>>
     ELSE /\ call' = Returned("endLog", l, Undefined)
          /\ EndLogBody(l)

\* closeLog with the handle released before endLog runs
CloseLogReleaseFirst(l) ==
  /\ l \in live
  /\ emitted' = IF logLevel[l] >= INFO
                THEN <<stdOut(format("INFO", "Close Logger"))>> ELSE <<>>
  /\ UNCHANGED <<tables, logs_attr, live, logLevel, params, opens, logs, clock>>
  /\ IF Absent(l)
     THEN /\ call' = Returned("closeLog", l, Undefined)
          /\ UNCHANGED <<dbh, closes>>
     ELSE /\ call' = Raised("closeLog", l)
          /\ dbh' = [dbh EXCEPT ![l] = "closed"]
          /\ closes' = [closes EXCEPT ![l] = @ + 1]

\* closeLog, lines 156-162
CloseLog(l) ==
  /\ l \in live
  /\ emitted' = IF logLevel[l] >= INFO
                THEN <<stdOut(format("INFO", "Close Logger"))>> ELSE <<>>
  /\ UNCHANGED <<tables, logs_attr, live, logLevel, params, opens>>
  /\ IF Absent(l)
     THEN /\ call' = Returned("closeLog", l, Undefined)
          /\ UNCHANGED <<logs, clock, dbh, closes>>
     ELSE IF ~Usable(l, "logs")
     THEN /\ call' = Raised("closeLog", l)
          /\ UNCHANGED <<logs, clock, dbh, closes>>
     ELSE /\ call' = Returned("closeLog", l, Undefined)
          /\ EndLogBody(l)
          /\ dbh' = [dbh EXCEPT ![l] = "closed"]
          /\ closes' = [closes EXCEPT ![l] = @ + 1]

\* setSessionTitle, lines 143-154
SetSessionTitle(l, title) ==
  /\ l \in live
  /\ emitted' = <<>>
  /\ UNCHANGED <<tables, logs, clock, live, dbh, logLevel, params, opens, closes>>
  /\ IF Absent(l)
     THEN /\ call' = [Returned("setSessionTitle", l, Undefined) EXCEPT !.arg = title]
          /\ UNCHANGED logs_attr
     ELSE IF ~Usable(l, "logs_attr") \/ params[l].logkey = NULL
     THEN /\ call' = [Raised("setSessionTitle", l) EXCEPT !.arg = title]
          /\ UNCHANGED logs_attr
     ELSE /\ call' = [Returned("setSessionTitle", l, Value(title)) EXCEPT !.arg = title]
          /\ logs_attr' = Upsert(logs_attr, params[l].logkey, title)

\* A lookup: it leaves the store and the Logger as they are.
Lookup(op, l, rets) ==
  /\ l \in live
  /\ emitted' = <<>>
  /\ UNCHANGED <<tables, logs, logs_attr, clock, live, dbh, logLevel, params,
                  opens, closes>>
  /\ IF Absent(l)
     THEN call' = Returned(op, l, Undefined)
     ELSE IF ~Usable(l, "logs")
     THEN call' = Raised(op, l)
     ELSE \E r \in rets : call' = Returned(op, l, IF r = NULL THEN Null ELSE Value(r))

\* getLogSession, lines 116-124
GetLogSession(l) == Lookup("getLogSession", l, {getLogSession(l)})

\* getLogKey, lines 126-136
GetLogKey(l) == Lookup("getLogKey", l, getLogKey(l))

\* getSessionByKey, lines 94-103: the SELECT has no LOGKEY column
SessionByKeyColumns == {"PACKAGE", "NAME", "FILENAME", "LOGSTART", "LOGEND"}
getSessionByKey(l) ==
  IF params[l].logkey \in DOMAIN logs /\ "LOGKEY" \in SessionByKeyColumns
  THEN params[l].logkey ELSE NULL
GetSessionByKey(l) == Lookup("getSessionByKey", l, {getSessionByKey(l)})

\* the gates with debug layered like the others
EmitsLayered(level, lvl) ==
  CASE level = "INFO" -> lvl >= INFO
    [] level = "DEBUG" -> lvl >= DEBUG
    [] level = "WARN" -> lvl >= WARN
    [] level = "ERROR" -> lvl >= ERROR

\* the gates of info, debug, warn and error, lines 165, 169, 173 and 177
Emits(level, lvl) ==
  CASE level = "INFO" -> lvl >= INFO
    [] level = "DEBUG" -> lvl = DEBUG
    [] level = "WARN" -> lvl >= WARN
    [] level = "ERROR" -> lvl >= ERROR

\* info, debug, warn, error: lines 164-187, without the optional error object
Message(op, level, l, m) ==
  /\ l \in live
  /\ call' = [Returned(op, l, Undefined) EXCEPT !.arg = <<m>>]
  /\ emitted' = IF Emits(level, logLevel[l])
                THEN <<IF level = "ERROR" THEN stdErr(format(level, m))
                                          ELSE stdOut(format(level, m))>>
                ELSE <<>>
  /\ UNCHANGED <<tables, logs, logs_attr, clock, live, dbh, logLevel, params,
                  opens, closes>>

info(l, m) == Message("info", "INFO", l, m)
debug(l, m) == Message("debug", "DEBUG", l, m)
warn(l, m) == Message("warn", "WARN", l, m)
error(l, m) == Message("error", "ERROR", l, m)

\* ------------------------------------------------------- specifications
\* Loggers built by their constructor, sharing one store file.
Next ==
  \/ Tick
  \/ \E l \in Loggers, pkg \in Packages, name \in Names, file \in Filenames,
        lvl \in StoreLevels : Constructor(l, pkg, name, file, lvl)
  \/ \E l \in Loggers, clear \in BOOLEAN : InitLog(l, clear)
  \/ \E l \in Loggers : StartLog(l)
  \/ \E l \in Loggers : EndLog(l)
  \/ \E l \in Loggers : CloseLog(l)
  \/ \E l \in Loggers, t \in Titles : SetSessionTitle(l, t)

Spec == Init /\ [][Next]_vars

\* The methods, the lookups included, on one Logger object that starts as lines
\* 15-26 of the constructor leave it (its handle absent), over a store file as
\* an earlier process left it.
SessionRow(end) ==
  [package |-> "p", name |-> "n", filename |-> <<"a">>, logstart |-> 0,
   logend |-> end, lastmodified |-> IF end = NULL THEN 0 ELSE end]
TitleRow == [keyref |-> 1, attrib |-> LOGSTARTMESSAGE, value |-> <<"n", " started">>]
PriorStores ==
  { [tables |-> {}, logs |-> <<>>, logs_attr |-> {}] } \cup
  { [tables |-> {"logs", "logs_attr"}, logs |-> (1 :> SessionRow(end)),
     logs_attr |-> {TitleRow}] : end \in {NULL, 0} }

InitUninit ==
  /\ \E s \in PriorStores :
       /\ tables = s.tables
       /\ logs = s.logs
       /\ logs_attr = s.logs_attr
  /\ clock = 0
  /\ live = {}
  /\ dbh = [l \in Loggers |-> "null"]
  /\ logLevel = [l \in Loggers |-> 0]
  /\ params = [l \in Loggers |-> NoParams]
  /\ call = NoCall
  /\ emitted = <<>>
  /\ opens = [l \in Loggers |-> 0]
  /\ closes = [l \in Loggers |-> 0]

NextUninit ==
  \/ Tick
  \/ \E pkg \in Packages, name \in Names, file \in MoreFilenames, lvl \in StoreLevels :
        Alloc("L1", pkg, name, file, lvl)
  \/ \E clear \in BOOLEAN : InitLog("L1", clear)
  \/ StartLog("L1")
  \/ EndLog("L1")
  \/ CloseLog("L1")
  \/ \E t \in Titles : SetSessionTitle("L1", t)
  \/ GetLogSession("L1")
  \/ GetLogKey("L1")
  \/ GetSessionByKey("L1")

SpecUninit == InitUninit /\ [][NextUninit]_vars

\* One Logger of any level and its console output.
NextConsole ==
  \/ \E pkg \in Packages, name \in Names, file \in MoreFilenames, lvl \in Levels :
        Constructor("L1", pkg, name, file, lvl)
  \/ \E m \in Messages : info("L1", m)
  \/ \E m \in Messages : debug("L1", m)
  \/ \E m \in Messages : warn("L1", m)
  \/ \E m \in Messages : error("L1", m)
  \/ CloseLog("L1")

SpecConsole == Init /\ [][NextConsole]_vars

\* ------------------------------------------------------------- claims
\* C1: in every reachable state at most one row of logs with the same
\* filename is open (logEnd absent), whatever startLog, endLog and closeLog
\* calls the Loggers sharing the store have made one at a time.
C1_OneOpenSessionPerFilename ==
  \A j, k \in DOMAIN logs :
    (logs[j].filename = logs[k].filename /\ logs[j].logend = NULL /\ logs[k].logend = NULL)
      => j = k

\* C2: a startLog that follows a startLog of the same Logger (the one that ends
\* the constructor included), both returning, changes no row of logs or
\* logs_attr, leaves the Logger's key as it was, and leaves exactly one open row
\* with the Logger's filename.
C2_StartLogIdempotent ==
  [][\A l \in Loggers :
       (/\ call.op \in {"constructor", "startLog"} /\ call.l = l /\ ~call.raised
        /\ call'.op = "startLog" /\ call'.l = l /\ ~call'.raised
        /\ call' # call)
       => /\ logs' = logs
          /\ logs_attr' = logs_attr
          /\ params'[l].logkey = params[l].logkey
          /\ Cardinality(OpenRows(params[l].filename)') = 1]_vars

\* C3: when endLog follows startLog on a Logger, then afterwards getLogSession
\* returns null and getLogKey returns the key of the session just closed,
\* whatever other rows the store holds.
C3_LookupsAfterEnd ==
  [][\A l \in Loggers :
       (/\ call.op = "startLog" /\ call.l = l /\ ~call.raised
        /\ call'.op = "endLog" /\ call'.l = l /\ ~call'.raised)
       => /\ getLogSession(l)' = NULL
          /\ getLogKey(l)' = {params[l].logkey}]_vars

\* C4: an endLog on a Logger whose session row already has a logEnd leaves
\* that row's logEnd and lastModified as they were, also when the clock has
\* advanced since the row was closed.
C4_LogEndSetOnce ==
  [][\A l \in Loggers :
       LET k == params[l].logkey
       IN (/\ call'.op = "endLog" /\ call'.l = l /\ ~call'.raised
           /\ k \in DOMAIN logs
           /\ logs[k].logend # NULL)
          => /\ logs'[k].logend = logs[k].logend
             /\ logs'[k].lastmodified = logs[k].lastmodified]_vars

\* C5: for every level and message, debug writes its line iff logLevel is
\* DEBUG exactly, and info, warn and error write theirs iff logLevel is at
\* least INFO, WARN and ERROR; so where info writes, warn and error write too,
\* and at DEBUG all four write.
Gate(op) ==
  CASE op = "debug" -> logLevel[call.l] = 7
    [] op = "info" -> logLevel[call.l] >= 6
    [] op = "warn" -> logLevel[call.l] >= 4
    [] op = "error" -> logLevel[call.l] >= 3
Line(op) ==
  CASE op = "debug" -> <<"stdout", <<"DEBUG", ": ", call.arg[1], "\n">>>>
    [] op = "info" -> <<"stdout", <<"INFO", ": ", call.arg[1], "\n">>>>
    [] op = "warn" -> <<"stdout", <<"WARN", ": ", call.arg[1], "\n">>>>
    [] op = "error" -> <<"stderr", <<"ERROR", ": ", call.arg[1], "\n">>>>
C5_LevelGate ==
  /\ call.op \in {"debug", "info", "warn", "error"}
       => emitted = IF Gate(call.op) THEN <<Line(call.op)>> ELSE <<>>
  /\ \A lvl \in Levels :
       /\ Emits("INFO", lvl) => Emits("WARN", lvl) /\ Emits("ERROR", lvl)
       /\ lvl = DEBUG => \A level \in {"DEBUG", "INFO", "WARN", "ERROR"} : Emits(level, lvl)
C5_Witness ==
  /\ call.op = "debug"
  /\ logLevel[call.l] = 8
  /\ emitted = <<>>

\* C6: right after a startLog (the constructor's included) that inserted a row,
\* logs holds an open row under the Logger's key with the Logger's package,
\* name and filename, the key is the rowid the store assigned, and logs_attr
\* holds exactly one row for that key: LOGSTARTMESSAGE with the start title.
C6_NewSessionStored ==
  (call.op \in {"constructor", "startLog"} /\ call.rowid # NULL /\ ~call.raised)
    => LET p == params[call.l]
           k == p.logkey
       IN /\ k = call.rowid
          /\ k \in DOMAIN logs
          /\ logs[k].package = p.package
          /\ logs[k].name = p.name
          /\ logs[k].filename = p.filename
          /\ logs[k].logend = NULL
          /\ {r \in logs_attr : r.keyref = k}
               = {[keyref |-> k, attrib |-> LOGSTARTMESSAGE, value |-> <<p.name, " started">>]}
C6_Witness ==
  /\ call.op = "startLog"
  /\ call.rowid = 3
  /\ ~call.raised
  /\ params[call.l].logkey = 3

\* C7: logs_attr never holds two rows with the same keyref and attrib, and
\* right after a setSessionTitle the one LOGSTARTMESSAGE row of the Logger's
\* key carries the title of that call.
C7_AttributeUpsert ==
  /\ \A r1, r2 \in logs_attr :
       (r1.keyref = r2.keyref /\ r1.attrib = r2.attrib) => r1 = r2
  /\ (call.op = "setSessionTitle" /\ ~call.raised)
       => {r \in logs_attr : r.keyref = params[call.l].logkey /\ r.attrib = LOGSTARTMESSAGE}
            = {[keyref |-> params[call.l].logkey, attrib |-> LOGSTARTMESSAGE,
                value |-> call.arg]}
C7_Witness ==
  /\ call.op = "setSessionTitle"
  /\ ~call.raised
  /\ call.arg = <<"t">>
  /\ Cardinality(logs_attr) = 3
  /\ \E r \in logs_attr : r.keyref = params[call.l].logkey /\ r.value = <<"t">>

\* C8: no call on a Logger raises, also after closeLog has closed its handle.
C8_NeverRaises == ~call.raised

\* C9: on a Logger whose handle is absent, startLog, endLog, getLogSession,
\* getLogKey, getSessionByKey, setSessionTitle and closeLog return undefined
\* without raising and leave the tables, logs, logs_attr, the Logger's params
\* and its handle as they were.
UninitOps == {"startLog", "endLog", "getLogSession", "getLogKey", "getSessionByKey",
              "setSessionTitle", "closeLog"}
C9_AbsentHandleNoOp ==
  [][\A l \in Loggers :
       (l \in live /\ dbh[l] = "null" /\ call'.l = l /\ call'.op \in UninitOps)
       => /\ call'.ret = Undefined
          /\ ~call'.raised
          /\ UNCHANGED <<tables, logs, logs_attr, params, dbh>>]_vars
C9_Witness ==
  /\ call.op = "endLog"
  /\ call.l \in live
  /\ dbh[call.l] = "null"
  /\ \E k \in DOMAIN logs : logs[k].logend = NULL /\ logs[k].filename = params[call.l].filename

\* C10: initLog(true) called on a Logger while logs holds rows leaves the
\* logs table in existence and empty.
C10_ClearEmptiesLogs ==
  [][\A l \in Loggers :
       (/\ l \in live /\ logs # <<>>
        /\ call' # call /\ call'.op = "initLog" /\ call'.l = l /\ call'.arg = <<TRUE>>)
       => (logs' = <<>> /\ "logs" \in tables')]_vars

\* C11: initLog on a Logger whose handle is set, with clear true or false,
\* returns without opening a handle and leaves the handle, the tables, every
\* row of logs and logs_attr and the Logger's key as they were.
C11_InitLogIdempotent ==
  [][call'.op = "initLog" =>
       \A l \in Loggers :
         (call'.l = l /\ l \in live /\ dbh[l] # "null")
         => /\ ~call'.raised
            /\ UNCHANGED <<tables, logs, logs_attr, params, dbh, opens>>]_vars
C11_Witness ==
  /\ call.op = "initLog"
  /\ call.arg = <<TRUE>>
  /\ ~call.raised
  /\ dbh[call.l] = "open"
  /\ opens[call.l] = 1
  /\ Cardinality(DOMAIN logs) = 2

\* C12: closeLog on a Logger with a usable handle returns with the row of the
\* Logger's key closed (logEnd present) and the handle released: the UPDATE of
\* endLog runs on the handle while it is still open.
C12_CloseEndsThenReleases ==
  [][\A l \in Loggers :
       (/\ l \in live /\ dbh[l] = "open" /\ "logs" \in tables
        /\ call'.op = "closeLog" /\ call'.l = l)
       => LET k == params[l].logkey
          IN /\ ~call'.raised
             /\ k \in DOMAIN logs'
             /\ logs'[k].logend # NULL
             /\ dbh'[l] = "closed"
             /\ closes'[l] = closes[l] + 1]_vars
C12_Witness ==
  /\ call.op = "closeLog"
  /\ ~call.raised
  /\ dbh[call.l] = "closed"
  /\ closes[call.l] = 1
  /\ params[call.l].logkey \in DOMAIN logs
  /\ logs[params[call.l].logkey].logend # NULL

\* C13: every Logger has opened its handle exactly once and released it at
\* most once, whatever calls it has received; a released handle is never
\* released again.
C13_HandleOpenedAndReleasedOnce ==
  \A l \in Loggers :
    /\ opens[l] = IF l \in live THEN 1 ELSE 0
    /\ closes[l] <= 1
    /\ closes[l] = 1 <=> dbh[l] = "closed"
C13_Witness ==
  /\ call.op = "closeLog"
  /\ call.raised
  /\ closes[call.l] = 1
  /\ opens[call.l] = 1

\* C14: getLogKey of a Logger returns only the key of a row whose filename is
\* the Logger's filename, and the row a Logger holds as its session (the row
\* its endLog and setSessionTitle act on) has the Logger's filename.
C14_SessionsIsolatedByFilename ==
  \A l \in live :
    /\ \A k \in getLogKey(l) : k # NULL => logs[k].filename = params[l].filename
    /\ params[l].logkey \in DOMAIN logs
         => logs[params[l].logkey].filename = params[l].filename

\* C15: no step removes a row of logs or changes the package, name, filename
\* or logstart stored under a key; an endLog changes no row but the one under
\* the Logger's key, adds none, and leaves logs_attr as it was.
C15_RowsAppendOnly ==
  [][/\ \/ logs' = logs
        \/ \A k \in DOMAIN logs :
             /\ k \in DOMAIN logs'
             /\ logs'[k].package = logs[k].package
             /\ logs'[k].name = logs[k].name
             /\ logs'[k].filename = logs[k].filename
             /\ logs'[k].logstart = logs[k].logstart
     /\ call'.op = "endLog"
          => /\ DOMAIN logs' = DOMAIN logs
             /\ \A k \in DOMAIN logs : k # params[call'.l].logkey => logs'[k] = logs[k]
             /\ logs_attr' = logs_attr]_vars
C15_Witness ==
  /\ call.op = "endLog"
  /\ ~call.raised
  /\ Cardinality(DOMAIN logs) = 3
  /\ logs[params[call.l].logkey].logend # NULL
  /\ \E k \in DOMAIN logs : logs[k].logend = NULL

\* C16: every open row of logs has lastmodified equal to logstart and every
\* closed row has lastmodified equal to logend.
C16_TimestampsAgree ==
  \A k \in DOMAIN logs :
    logs[k].lastmodified = IF logs[k].logend = NULL THEN logs[k].logstart ELSE logs[k].logend

\* C17: every row of logs_attr has a keyref that is not null and is the key of
\* a row of logs.
C17_AttributesHaveSession ==
  \A r \in logs_attr : r.keyref # NULL /\ r.keyref \in DOMAIN logs
C17_Witness ==
  /\ call.op = "setSessionTitle"
  /\ ~call.raised
  /\ dbh = [l \in Loggers |-> "open"]
  /\ {r.keyref : r \in logs_attr} = {1, 2, 3}

\* C18: the key of every constructed Logger is not null and is the key of a
\* row of logs, and right after the constructor or a startLog returns that row
\* is open.
C18_KeyIdentifiesRow ==
  /\ \A l \in live : params[l].logkey # NULL /\ params[l].logkey \in DOMAIN logs
  /\ (call.op \in {"constructor", "startLog"} /\ ~call.raised)
       => logs[params[call.l].logkey].logend = NULL
C18_Witness ==
  /\ call.op = "constructor"
  /\ call.l = "L2"
  /\ call.rowid = 3
  /\ logs[1].logend # NULL
  /\ logs[2].logend # NULL

\* C19: a row of logs that has a logend keeps having one; and a startLog on a
\* Logger whose row is closed inserts one row under a key greater than every
\* key of logs, makes it the Logger's key, and leaves the other rows as they
\* were.
C19_ClosedNeverReopened ==
  [][/\ \/ logs' = logs
        \/ \A k \in DOMAIN logs :
             logs[k].logend # NULL => (k \in DOMAIN logs' /\ logs'[k].logend # NULL)
     /\ (call'.op = "startLog" /\ ~call'.raised) =>
        \A l \in Loggers :
          (/\ call'.l = l
           /\ l \in live
           /\ params[l].logkey \in DOMAIN logs
           /\ logs[params[l].logkey].logend # NULL)
          => LET n == params'[l].logkey
             IN /\ n \notin DOMAIN logs
                /\ \A j \in DOMAIN logs : n > j
                /\ DOMAIN logs' = DOMAIN logs \cup {n}
                /\ call'.rowid = n
                /\ logs'[n].logend = NULL
                /\ \A j \in DOMAIN logs : logs'[j] = logs[j]]_vars
C19_Witness ==
  /\ call.op = "startLog"
  /\ ~call.raised
  /\ call.rowid = 2
  /\ params[call.l].logkey = 2
  /\ logs[1].logend # NULL
  /\ logs[2].logend = NULL

====
